---------------------------- MODULE Spec2Model ----------------------------
(***************************************************************************)
(* A model of the Gemini exchange client of rotkehlchen                    *)
(* (src/rotkehlchen/exchanges/gemini.py).                                  *)
(*                                                                         *)
(* The module holds several specifications over one set of variables:      *)
(*   SpecRetry     the retry loop of _query_continuously and the status    *)
(*                 classification of the public / private api query        *)
(*   SpecPaginate  _get_paginated_query, one page fetch per step           *)
(*   SpecHistory   query_online_trade_history and                          *)
(*                 query_online_deposits_withdrawals on top of pagination  *)
(*   SpecConn      two greenlets using one client: first_connection, the   *)
(*                 symbols property and query_balances                     *)
(*   SpecBalances  the balance loop of query_balances over response lists  *)
(*   SpecSymbols   gemini_symbol_to_pair over a set of symbols             *)
(* Each specification leaves the variables of the other parts unchanged.   *)
(***************************************************************************)
EXTENDS Integers, Sequences, FiniteSets

VARIABLES
    \* ---- _query_continuously (one call at a time)
    qc_pc,          \* "idle" | "loop" | "returned" | "raised"
    qc_endpoint,    \* the endpoint argument
    retries_left,   \* the local retries_left
    response,       \* the local response: NoResponse or [status_code, text]
    qc_broke,       \* the loop was left through `break`
    qc_statuses,    \* history: the status of every response received in this call
    qc_requests,    \* history: number of session.request() calls in this call
    qc_signed,      \* history: number of header signings in this call
    qc_sleeps,      \* history: the retries_left value of every backoff sleep
    api_result,     \* what the api query wrapper made of the response
    validate_ret,   \* what validate_api_key returned on top of a 'roles' query
    \* ---- _get_paginated_query (one call at a time)
    pg_pc,          \* "idle" | "loop" | "trim" | "done" | "raised"
    pg_endpoint,    \* 'mytrades' | 'transfers'
    start_ts,       \* the window, in seconds
    end_ts,
    limit,          \* the local limit
    options_timestamp,  \* options['timestamp'], the cursor
    result,         \* the local result: the pages received, concatenated
    checked_result, \* the returned list
    pg_error,       \* the exception that left the call, or "none"
    cursors,        \* history: options['timestamp'] of every fetch made
    pg_venue_ok,    \* history: every page was newest-first and honoured the cursor
    \* ---- the client (ExchangeInterface fields and the bootstrap)
    first_connection_made,
    _symbols,       \* the symbol list, NoSymbols until fetched
    symbols_queries,    \* history: number of _public_api_query('symbols') calls
    symbols_failures,   \* history: how many of them raised RemoteError
    \* ---- the greenlets that use the client
    pc,             \* per caller: "idle" | "fc_wait" | "qb_blocked" | "qb_wait"
    c_op,           \* per caller: the operation it is in, or "none"
    c_ret,          \* per caller: what its last operation returned or raised
    lock,           \* the lock of protect_with_lock: its holder, or NoOwner
    fc_calls,       \* history: number of first_connection() invocations
    fc_overlap,     \* history: two 'symbols' queries were in flight at once
    balances_queries,   \* history: number of _private_api_query('balances') calls
    now,            \* the clock, in seconds
    results_cache,  \* the cache of cache_response_timewise: result and its time
    qb_last,        \* history: the last query_balances invocation that got the lock
    qb_entries,     \* history: the entries the last 'balances' answer carried
    qb_notifications,   \* msg_aggregator: what the last query_balances body added
    \* ---- query_online_trade_history / query_online_deposits_withdrawals
    h_pc,           \* "idle" | "symbols" | "paginating" | "done" | "raised"
    h_op,           \* "none" | "trades" | "movements"
    h_window,       \* <<start_ts, end_ts>> of the operation
    symbols_left,   \* the symbols the for loop of line 424 has not reached yet
    symbol,         \* the loop variable of line 424
    trades,         \* the local trades of query_online_trade_history
    movements,      \* the local movements of query_online_deposits_withdrawals
    notifications,  \* msg_aggregator: the warnings and errors added
    h_error,        \* the exception that left the operation, or "none"
    h_batch,        \* history: every record the venue returned in the operation
    h_log,          \* history: the symbols paginated in the operation, and how it went
    \* ---- gemini_symbol_to_pair (one call at a time)
    sp_symbol,      \* the symbol argument of the last call
    sp_pair         \* what the call returned or raised

retryVars == <<qc_pc, qc_endpoint, retries_left, response, qc_broke,
               qc_statuses, qc_requests, qc_signed, qc_sleeps, api_result,
               validate_ret>>

pageVars == <<pg_pc, pg_endpoint, start_ts, end_ts, limit, options_timestamp,
              result, checked_result, pg_error, cursors, pg_venue_ok>>

clientVars == <<first_connection_made, _symbols, symbols_queries, symbols_failures>>

connVars == <<pc, c_op, c_ret, lock, fc_calls, fc_overlap, balances_queries,
              now, results_cache, qb_last, qb_entries, qb_notifications>>

histVars == <<h_pc, h_op, h_window, symbols_left, symbol, trades, movements,
              notifications, h_error, h_batch, h_log>>

symbolVars == <<sp_symbol, sp_pair>>

vars == <<retryVars, pageVars, clientVars, histVars, connVars, symbolVars>>

---------------------------------------------------------------------------
(* Program constants *)

\* rotkehlchen/constants/timing.py
QUERY_RETRY_TIMES == 5
CACHE_RESPONSE_FOR_SECS == 600

\* http.HTTPStatus members the code compares with
HTTP_OK == 200
HTTP_BAD_REQUEST == 400
HTTP_FORBIDDEN == 403
HTTP_TOO_MANY_REQUESTS == 429
\* a status the code does not name (any other non-200)
HTTP_SERVER_ERROR == 500

StatusCodes == {HTTP_OK, HTTP_BAD_REQUEST, HTTP_FORBIDDEN,
                HTTP_TOO_MANY_REQUESTS, HTTP_SERVER_ERROR}

\* What the code looks at in response.text: valid JSON, text that holds the
\* 'InvalidSignature' marker, or anything else that is no JSON.
Texts == {"json", "InvalidSignature", "garbage"}

Responses == [status_code : StatusCodes, text : Texts]

NoResponse == [status_code |-> 0, text |-> "unset"]

PublicEndpoints == {"symbols"}
PrivateEndpoints == {"mytrades", "balances", "transfers", "roles"}
Endpoints == PublicEndpoints \cup PrivateEndpoints

---------------------------------------------------------------------------
(* _query_continuously *)

QcIdle == qc_pc \in {"idle", "returned", "raised"}

\* validate_api_key has not returned
NoValidation == [done |-> FALSE, ok |-> FALSE, message |-> "", flag |-> "absent"]

\* lines 154-156: a call sets up the url and the retry budget
QcCall(endpoint) ==
    /\ QcIdle
    /\ qc_pc' = "loop"
    /\ qc_endpoint' = endpoint
    /\ retries_left' = QUERY_RETRY_TIMES
    /\ response' = NoResponse
    /\ qc_broke' = FALSE
    /\ qc_statuses' = <<>>
    /\ qc_requests' = 0
    /\ qc_signed' = 0
    /\ qc_sleeps' = <<>>
    /\ api_result' = "none"
    /\ validate_ret' = NoValidation

\* AfterResponse without the decrement of line 187
AfterResponseNoDecrement(r, left, sleeps) ==
    IF r.status_code = HTTP_TOO_MANY_REQUESTS
    THEN [retries_left |-> left, broke |-> FALSE, sleeps |-> Append(sleeps, left)]
    ELSE [retries_left |-> left, broke |-> TRUE, sleeps |-> sleeps]

\* lines 184-190: what a received response does to the loop: the new
\* retries_left, whether the loop is left, and the sleeps made so far
AfterResponse(r, left, sleeps) ==
    IF r.status_code = HTTP_TOO_MANY_REQUESTS
    THEN [retries_left |-> left - 1, broke |-> FALSE,
          sleeps |-> Append(sleeps, left)]
    ELSE [retries_left |-> left, broke |-> TRUE, sleeps |-> sleeps]

\* lines 157-190: one iteration of the while loop that gets a response
QcAttempt(r) ==
    /\ qc_pc = "loop"
    /\ ~qc_broke
    /\ retries_left > 0
    /\ qc_signed' = IF qc_endpoint \in PrivateEndpoints
                    THEN qc_signed + 1 ELSE qc_signed
    /\ qc_requests' = qc_requests + 1
    /\ response' = r
    /\ qc_statuses' = Append(qc_statuses, r.status_code)
    /\ LET a == AfterResponse(r, retries_left, qc_sleeps)
       IN /\ retries_left' = a.retries_left
          /\ qc_broke' = a.broke
          /\ qc_sleeps' = a.sleeps
    /\ UNCHANGED <<qc_pc, qc_endpoint, api_result, validate_ret>>

\* lines 173-182 with the exception swallowed: the loop goes on
QcConnectionErrorRetried ==
    /\ qc_pc = "loop"
    /\ ~qc_broke
    /\ retries_left > 0
    /\ qc_signed' = IF qc_endpoint \in PrivateEndpoints
                    THEN qc_signed + 1 ELSE qc_signed
    /\ qc_requests' = qc_requests + 1
    /\ retries_left' = retries_left - 1
    /\ UNCHANGED <<qc_pc, qc_endpoint, response, qc_broke, qc_statuses,
                   qc_sleeps, api_result, validate_ret>>

\* lines 173-182: the request fails at connection level: RemoteError
QcConnectionError ==
    /\ qc_pc = "loop"
    /\ ~qc_broke
    /\ retries_left > 0
    /\ qc_signed' = IF qc_endpoint \in PrivateEndpoints
                    THEN qc_signed + 1 ELSE qc_signed
    /\ qc_requests' = qc_requests + 1
    /\ qc_pc' = "raised"
    /\ api_result' = "RemoteError"
    /\ UNCHANGED <<qc_endpoint, retries_left, response, qc_broke,
                   qc_statuses, qc_sleeps, validate_ret>>

\* lines 204-219: _public_api_query on the response it got
PublicApiResult(r) ==
    IF r.status_code # HTTP_OK THEN "RemoteError"
    ELSE IF r.text # "json" THEN "RemoteError"
    ELSE "ok"

\* PrivateApiResult without the test of line 261
PrivateApiResultAnyStatus(r) ==
    IF r.status_code = HTTP_FORBIDDEN THEN "GeminiPermissionError"
    ELSE IF r.status_code = HTTP_BAD_REQUEST /\ r.text = "InvalidSignature"
         THEN "GeminiPermissionError"
    ELSE IF r.text # "json" THEN "RemoteError"
    ELSE "ok"

\* lines 250-278: _private_api_query on the response it got
PrivateApiResult(r) ==
    IF r.status_code = HTTP_FORBIDDEN THEN "GeminiPermissionError"
    ELSE IF r.status_code = HTTP_BAD_REQUEST /\ r.text = "InvalidSignature"
         THEN "GeminiPermissionError"
    ELSE IF r.status_code # HTTP_OK THEN "RemoteError"
    ELSE IF r.text # "json" THEN "RemoteError"
    ELSE "ok"

\* line 192 (and the loop test of line 157): the loop is over, the response
\* goes back to the api query wrapper, which classifies it
QcReturn ==
    /\ qc_pc = "loop"
    /\ (qc_broke \/ retries_left <= 0)
    /\ qc_pc' = "returned"
    /\ api_result' = IF qc_endpoint \in PrivateEndpoints
                     THEN PrivateApiResult(response)
                     ELSE PublicApiResult(response)
    /\ UNCHANGED <<qc_endpoint, retries_left, response, qc_broke,
                   qc_statuses, qc_requests, qc_signed, qc_sleeps, validate_ret>>

\* What the 'roles' answer holds under 'isAuditor': the JSON true, the JSON
\* false, no such key, or a value that is neither boolean (null, 0, a string)
RolesFlags == {"true", "false", "absent", "other"}

\* line 133: roles.get('isAuditor', False) is False
IsFalse(flag) == flag \in {"false", "absent"}

\* lines 120-136: validate_api_key on what _private_api_query did and, when
\* it returned the roles, on their flag
validate_api_key(query, flag) ==
    IF query = "GeminiPermissionError" THEN [ok |-> FALSE, message |-> "instructions"]
    ELSE IF query = "RemoteError" THEN [ok |-> FALSE, message |-> "error text"]
    ELSE IF IsFalse(flag) THEN [ok |-> FALSE, message |-> "instructions"]
    ELSE [ok |-> TRUE, message |-> ""]

\* lines 125-136: the 'roles' query is over and validate_api_key returns
ValidateApiKey(flag) ==
    /\ qc_pc \in {"returned", "raised"}
    /\ qc_endpoint = "roles"
    /\ ~validate_ret.done
    /\ api_result = "ok" \/ flag = "absent"
    /\ LET v == validate_api_key(api_result, flag)
       IN validate_ret' = [done |-> TRUE, ok |-> v.ok, message |-> v.message,
                           flag |-> flag]
    /\ UNCHANGED <<qc_pc, qc_endpoint, retries_left, response, qc_broke,
                   qc_statuses, qc_requests, qc_signed, qc_sleeps, api_result>>

---------------------------------------------------------------------------
(* Raw records and pages *)

\* the largest window bound, in seconds
MaxTs == 2
Seconds == 0..MaxTs

\* entry['timestampms'] of the records a venue returns; MissingMs stands for
\* a record without the key
MsValues == {1000, 1500, 2000, 2500}
MissingMs == -1

\* the model's page sizes, standing for the 500 and 50 of lines 352 and 356
LimitTrades == 2
LimitTransfers == 1

\* the most records the venue returns in one pagination
MaxRecords == 4

\* A raw record: its 'timestampms' and what normalizing its other fields
\* raises ("none": every field is there and deserializes)
Faults == {"none", "KeyError", "DeserializationError", "UnknownAsset",
           "UnsupportedAsset"}

\* entry['timestamp'] of a trade record, in seconds; BadTimestamp stands for
\* a value deserialize_timestamp rejects
BadTimestamp == -1

Rec(ms, ts, f) == [timestampms |-> ms, timestamp |-> ts, fault |-> f]

\* a well-formed record of the instant ms
Good(ms) == Rec(ms, ms \div 1000, "none")

PaginateRecords == {Good(ms) : ms \in MsValues} \cup {Rec(MissingMs, 1, "none")}

\* every sequence over R of at most n elements
Pages(R, n) == UNION {[1..k -> R] : k \in 0..n}

Reverse(s) == [i \in 1..Len(s) |-> s[Len(s) + 1 - i]]

Min(a, b) == IF a < b THEN a ELSE b

---------------------------------------------------------------------------
(* _get_paginated_query *)

\* lines 350-357: the page size of the endpoint
LimitOf(endpoint) ==
    IF endpoint = "mytrades" THEN LimitTrades ELSE LimitTransfers

\* lines 348-360
PgStart(endpoint, s, t) ==
    /\ pg_pc' = "loop"
    /\ pg_endpoint' = endpoint
    /\ start_ts' = s
    /\ end_ts' = t
    /\ limit' = LimitOf(endpoint)
    /\ options_timestamp' = s
    /\ result' = <<>>
    /\ checked_result' = <<>>
    /\ pg_error' = "none"
    /\ cursors' = <<>>
    /\ pg_venue_ok' = TRUE

\* The instant, in milliseconds, the cursor of the next fetch denotes: the
\* first fetch sends start_ts (seconds), the later ones a millisecond value.
CursorMs == IF cursors = <<>> THEN options_timestamp * 1000 ELSE options_timestamp

\* line 371 "Most recent entry is first", and the venue's contract for the
\* 'timestamp' parameter: only records at or after it
PageHonoursCursor(page) ==
    /\ \A i \in 1..Len(page) :
          /\ page[i].timestampms # MissingMs
          /\ page[i].timestampms >= CursorMs
    /\ \A i \in 1..Len(page), j \in 1..Len(page) :
          i < j => page[i].timestampms >= page[j].timestampms

\* lines 363-376 when _private_api_query raises: the exception leaves the call
PgFetchRaises(err) ==
    /\ pg_pc = "loop"
    /\ pg_pc' = "raised"
    /\ pg_error' = err
    /\ cursors' = Append(cursors, options_timestamp)
    /\ UNCHANGED <<pg_endpoint, start_ts, end_ts, limit, options_timestamp,
                   result, checked_result, pg_venue_ok>>

\* lines 368-376: what a received page does to the loop:
\* "break", "KeyError", or "next" with the new cursor
AfterPage(page, lim, t, cursor) ==
    IF Len(page) < lim THEN [do |-> "break", cursor |-> cursor]
    ELSE IF page[1].timestampms = MissingMs
         THEN [do |-> "KeyError", cursor |-> cursor]
    ELSE IF (page[1].timestampms \div 1000) > t
         THEN [do |-> "break", cursor |-> cursor]
    ELSE [do |-> "next", cursor |-> page[1].timestampms + 1]

\* lines 363-376: one iteration of the loop that receives a page
PgFetchPage(page) ==
    /\ pg_pc = "loop"
    /\ cursors' = Append(cursors, options_timestamp)
    /\ pg_venue_ok' = (pg_venue_ok /\ PageHonoursCursor(page))
    /\ result' = result \o page
    /\ LET a == AfterPage(page, limit, end_ts, options_timestamp)
       IN /\ options_timestamp' = a.cursor
          /\ pg_pc' = CASE a.do = "break" -> "trim"
                        [] a.do = "KeyError" -> "raised"
                        [] OTHER -> "loop"
          /\ pg_error' = IF a.do = "KeyError" THEN "KeyError" ELSE "none"
    /\ UNCHANGED <<pg_endpoint, start_ts, end_ts, limit, checked_result>>

\* lines 381-385: the trimming loop over the reversed result, from index i
\* with acc kept so far: the list kept, or the KeyError of a record
\* without 'timestampms'
RECURSIVE TrimLoop(_, _, _, _)
TrimLoop(rev, i, acc, t) ==
    IF i > Len(rev) THEN [out |-> acc, error |-> "none"]
    ELSE IF rev[i].timestampms = MissingMs THEN [out |-> acc, error |-> "KeyError"]
    ELSE IF rev[i].timestampms > t * 1000 THEN [out |-> acc, error |-> "none"]
    ELSE TrimLoop(rev, i + 1, Append(acc, rev[i]), t)

\* lines 378-387: reverse, trim, return
PgFinish ==
    /\ pg_pc = "trim"
    /\ LET r == TrimLoop(Reverse(result), 1, <<>>, end_ts)
       IN IF r.error = "none"
          THEN /\ pg_pc' = "done"
               /\ checked_result' = r.out
               /\ pg_error' = "none"
          ELSE /\ pg_pc' = "raised"
               /\ checked_result' = <<>>
               /\ pg_error' = r.error
    /\ UNCHANGED <<pg_endpoint, start_ts, end_ts, limit, options_timestamp,
                   result, cursors, pg_venue_ok>>

\* One fetch: the retry loop ends with some response, the private api query
\* classifies it, and a 200 with JSON carries a page of records from R, at
\* most `room` of them.
PgFetch(R, room) ==
    \E r \in Responses :
        IF PrivateApiResult(r) = "ok"
        THEN \E page \in Pages(R, Min(limit, room)) : PgFetchPage(page)
        ELSE PgFetchRaises(PrivateApiResult(r))

PgIdle == pg_pc \in {"idle", "done", "raised"}

PgCall(endpoint, s, t) == PgIdle /\ PgStart(endpoint, s, t)

PaginateFetch == PgFetch(PaginateRecords, MaxRecords - Len(result))

---------------------------------------------------------------------------
(* Trading-pair symbols: gemini_symbol_to_pair *)

\* A symbol or an asset identifier is a sequence of one-character strings.
LowerLetters == <<"a", "b", "c", "d", "e", "f", "g", "h", "i", "j", "k", "l", "m",
                  "n", "o", "p", "q", "r", "s", "t", "u", "v", "w", "x", "y", "z">>
UpperLetters == <<"A", "B", "C", "D", "E", "F", "G", "H", "I", "J", "K", "L", "M",
                  "N", "O", "P", "Q", "R", "S", "T", "U", "V", "W", "X", "Y", "Z">>

\* str.upper() on one character and on a string
UpperChar(c) ==
    IF \E i \in 1..Len(LowerLetters) : LowerLetters[i] = c
    THEN UpperLetters[CHOOSE i \in 1..Len(LowerLetters) : LowerLetters[i] = c]
    ELSE c

Upper(str) == [i \in 1..Len(str) |-> UpperChar(str[i])]

\* symbol[:k] and symbol[k:]
Prefix(str, k) == SubSeq(str, 1, Min(k, Len(str)))
Suffix(str, k) == SubSeq(str, Min(k, Len(str)) + 1, Len(str))

\* `sub in str`
Contains(str, sub) ==
    \E i \in 0..(Len(str) - Len(sub)) : SubSeq(str, i + 1, i + Len(sub)) = sub

\* The asset registry: the identifiers Asset() resolves and those it
\* rejects as unsupported; every other identifier is unknown.
KnownAssets == {<<"B", "T", "C">>,
                <<"E", "T", "H">>,
                <<"U", "S", "D">>,
                <<"D", "A", "I">>,
                <<"L", "I", "N", "K">>,
                <<"B", "T", "C", "D">>,
                <<"D", "A", "S", "H">>,
                <<"U", "S", "D", "T">>,
                <<"S", "T", "O", "R", "J">>}
UnsupportedAssets == {<<"X", "X", "X">>}

\* Asset(identifier): "ok", or the exception of the resolution
Asset(identifier) ==
    IF identifier \in KnownAssets THEN "ok"
    ELSE IF identifier \in UnsupportedAssets THEN "UnsupportedAsset"
    ELSE "UnknownAsset"

\* base_asset = Asset(..); quote_asset = Asset(..): the first failure is raised
AssetPair(base, quote) ==
    [base |-> base, quote |-> quote,
     error |-> IF Asset(base) # "ok" THEN Asset(base) ELSE
               IF Asset(quote) # "ok" THEN Asset(quote) ELSE "none"]

SplitAt(sym, k) == AssetPair(Upper(Prefix(sym, k)), Upper(Suffix(sym, k)))

Storj == <<"s", "t", "o", "r", "j">>

\* gemini_symbol_to_pair without the fallback of lines 69-71
gemini_symbol_to_pair_no_fallback(sym) ==
    IF Len(sym) = 6 THEN SplitAt(sym, 3)
    ELSE IF Len(sym) = 7 THEN SplitAt(sym, 4)
    ELSE IF Len(sym) = 8
         THEN IF Contains(sym, Storj) THEN SplitAt(sym, 5) ELSE SplitAt(sym, 4)
    ELSE [base |-> <<>>, quote |-> <<>>, error |-> "UnprocessableTradePair",
          pair |-> sym]

\* lines 56-82: the two assets of the pair and "none", or the exception
\* raised (UnprocessableTradePair carries the symbol)
gemini_symbol_to_pair(sym) ==
    IF Len(sym) = 6 THEN SplitAt(sym, 3)
    ELSE IF Len(sym) = 7
         THEN IF SplitAt(sym, 4).error = "UnknownAsset"
              THEN SplitAt(sym, 3) ELSE SplitAt(sym, 4)
    ELSE IF Len(sym) = 8
         THEN IF Contains(sym, Storj) THEN SplitAt(sym, 5) ELSE SplitAt(sym, 4)
    ELSE [base |-> <<>>, quote |-> <<>>, error |-> "UnprocessableTradePair",
          pair |-> sym]

\* The symbols gemini_symbol_to_pair is called with: every concatenation of
\* two of these parts
SymbolParts ==
    {<<"b", "t">>, <<"u", "s">>,
     <<"b", "t", "c">>, <<"e", "t", "h">>, <<"x", "y", "z">>, <<"u", "s", "d">>, <<"d", "a", "i">>, <<"a", "s", "h">>,
     <<"B", "T", "C">>, <<"U", "S", "D">>, <<"U", "s", "d">>,
     <<"l", "i", "n", "k">>, <<"b", "t", "c", "d">>, <<"d", "a", "s", "h">>, <<"u", "s", "d", "t">>, <<"l", "i", "n", "x">>,
     <<"s", "t", "o", "r", "j">>, <<"S", "T", "O", "R", "J">>, <<"S", "t", "o", "r", "j">>, <<"s", "T", "o", "R", "j">>}

PairSymbols == {a \o b : a \in SymbolParts, b \in SymbolParts}

NoPair == [base |-> <<>>, quote |-> <<>>, error |-> "not called"]

\* lines 56-82: one call
PairCall(sym) ==
    /\ sp_symbol' = sym
    /\ sp_pair' = gemini_symbol_to_pair(sym)

btcusd == <<"b", "t", "c", "u", "s", "d">>
ethusd == <<"e", "t", "h", "u", "s", "d">>
xyzusd == <<"x", "y", "z", "u", "s", "d">>
btcus == <<"b", "t", "c", "u", "s">>

\* The symbol lists the venue may answer the 'symbols' query with
SymbolLists == {<<btcusd>>, <<btcusd, ethusd>>, <<xyzusd, btcusd>>,
                <<btcus, btcusd>>}

NoSymbols == <<>>
NoSymbol == <<>>

---------------------------------------------------------------------------
(* The client bootstrap, without interleaving *)

\* the most 'symbols' queries one behaviour of the history operations makes
MaxBootstrapQueries == 1

\* lines 106-112 run to completion: r is the response the retry loop ends
\* with, syms the list a 200 carries. Gives "ok" or the error raised.
FirstConnection(r, syms) ==
    IF first_connection_made
    THEN /\ UNCHANGED clientVars
    ELSE /\ symbols_queries < MaxBootstrapQueries
         /\ symbols_queries' = symbols_queries + 1
         /\ IF PublicApiResult(r) = "ok"
            THEN /\ _symbols' = syms
                 /\ first_connection_made' = TRUE
                 /\ UNCHANGED symbols_failures
            ELSE /\ symbols_failures' = symbols_failures + 1
                 /\ UNCHANGED <<_symbols, first_connection_made>>

---------------------------------------------------------------------------
(* The trade and movement mappings *)

\* the records the venue returns in the history operations
HistoryRecords ==
    {Good(1000), Good(2000), Rec(1000, 2, "none"), Rec(1000, BadTimestamp, "none"),
     Rec(MissingMs, 1, "none")}
    \cup {Rec(1000, 1, f) : f \in Faults \ {"none"}}

\* the most records the venue returns in one history operation
MaxHistoryRecords == 2

Note(severity, kind) == [severity |-> severity, about |-> kind]

\* lines 448-472: what the except clauses of the trade loop do with an
\* exception kind: notify at a severity and continue, or let it pass
TradeHandler(kind) ==
    IF kind \in {"UnprocessableTradePair", "UnknownAsset"} THEN "warning"
    ELSE IF kind \in {"DeserializationError", "KeyError"} THEN "error"
    ELSE "raise"

\* lines 506-531: the except clauses of the movement loop
MovementHandler(kind) ==
    IF kind \in {"UnknownAsset", "UnsupportedAsset"} THEN "warning"
    ELSE IF kind \in {"DeserializationError", "KeyError"} THEN "error"
    ELSE "raise"

\* lines 431-447: what processing one trade entry raises: "none", "break"
\* (line 434) or an exception kind, in the order the code evaluates
TradeEntryOutcome(entry, sym, t) ==
    IF entry.timestamp = BadTimestamp THEN "DeserializationError"
    ELSE IF entry.timestamp > t THEN "break"
    ELSE IF gemini_symbol_to_pair(sym).error # "none"
         THEN gemini_symbol_to_pair(sym).error
    ELSE entry.fault

\* lines 430-472: the loop over one symbol's entries, from index i
RECURSIVE TradeLoop(_, _, _, _, _, _)
TradeLoop(entries, i, acc, notes, sym, t) ==
    IF i > Len(entries) THEN [out |-> acc, notes |-> notes, error |-> "none"]
    ELSE LET o == TradeEntryOutcome(entries[i], sym, t)
         IN IF o = "break" THEN [out |-> acc, notes |-> notes, error |-> "none"]
            ELSE IF o = "none"
                 THEN TradeLoop(entries, i + 1,
                                Append(acc, [timestamp |-> entries[i].timestamp,
                                             symbol |-> sym]),
                                notes, sym, t)
            ELSE IF TradeHandler(o) = "raise"
                 THEN [out |-> acc, notes |-> notes, error |-> o]
            ELSE TradeLoop(entries, i + 1, acc,
                           Append(notes, Note(TradeHandler(o), o)), sym, t)

\* lines 488-505: what processing one movement entry raises
MovementEntryOutcome(entry) ==
    IF entry.timestampms = MissingMs THEN "KeyError" ELSE entry.fault

\* lines 487-533: the loop over the transfers, from index i
RECURSIVE MovementLoop(_, _, _, _)
MovementLoop(entries, i, acc, notes) ==
    IF i > Len(entries) THEN [out |-> acc, notes |-> notes, error |-> "none"]
    ELSE LET o == MovementEntryOutcome(entries[i])
         IN IF o = "none"
            THEN MovementLoop(entries, i + 1,
                              Append(acc, [timestamp |-> entries[i].timestampms \div 1000,
                                           symbol |-> NoSymbol]),
                              notes)
            ELSE IF MovementHandler(o) = "raise"
                 THEN [out |-> acc, notes |-> notes, error |-> o]
            ELSE MovementLoop(entries, i + 1, acc,
                              Append(notes, Note(MovementHandler(o), o)))

---------------------------------------------------------------------------
(* query_online_trade_history and query_online_deposits_withdrawals *)

HIdle == h_pc = "idle"

\* the windows the history operations are called with
HistoryWindows == {<<0, MaxTs>>, <<1, 1>>}

\* the locals of a finished _get_paginated_query call are gone
PgClear ==
    /\ pg_pc' = "idle"
    /\ pg_endpoint' = "mytrades"
    /\ start_ts' = 0
    /\ end_ts' = 0
    /\ limit' = LimitTrades
    /\ options_timestamp' = 0
    /\ result' = <<>>
    /\ checked_result' = <<>>
    /\ pg_error' = "none"
    /\ cursors' = <<>>
    /\ pg_venue_ok' = TRUE

\* TradeHistoryCall reading self._symbols in place of self.symbols
TradeHistoryCallNoBootstrap(s, t, r, syms) ==
    /\ HIdle
    /\ h_op' = "trades"
    /\ h_window' = <<s, t>>
    /\ trades' = <<>>
    /\ movements' = <<>>
    /\ notifications' = <<>>
    /\ h_batch' = <<>>
    /\ h_log' = <<>>
    /\ symbol' = NoSymbol
    /\ h_pc' = "symbols"
    /\ symbols_left' = IF first_connection_made THEN _symbols ELSE syms
    /\ h_error' = "none"
    /\ UNCHANGED <<pageVars, clientVars>>

\* lines 421-424: the call, up to the evaluation of self.symbols (138-141)
TradeHistoryCall(s, t, r, syms) ==
    /\ HIdle
    /\ FirstConnection(r, syms)
    /\ h_op' = "trades"
    /\ h_window' = <<s, t>>
    /\ trades' = <<>>
    /\ movements' = <<>>
    /\ notifications' = <<>>
    /\ h_batch' = <<>>
    /\ h_log' = <<>>
    /\ symbol' = NoSymbol
    /\ IF first_connection_made'
       THEN /\ h_pc' = "symbols"
            /\ symbols_left' = _symbols'
            /\ h_error' = "none"
       ELSE /\ h_pc' = "raised"
            /\ symbols_left' = <<>>
            /\ h_error' = "RemoteError"
    /\ UNCHANGED pageVars

\* lines 424-429 and 395-401: the next symbol, and its pagination begins
TradesForSymbolStart ==
    /\ h_pc = "symbols"
    /\ h_op = "trades"
    /\ symbols_left # <<>>
    /\ symbol' = Head(symbols_left)
    /\ symbols_left' = Tail(symbols_left)
    /\ h_pc' = "paginating"
    /\ PgStart("mytrades", h_window[1], h_window[2])
    /\ UNCHANGED <<h_op, h_window, trades, movements, notifications, h_error,
                   h_batch, h_log>>
    /\ UNCHANGED clientVars

\* one page fetch of the running pagination
HistoryFetch ==
    /\ h_pc = "paginating"
    /\ PgFetch(HistoryRecords, MaxHistoryRecords - Len(h_batch))
    /\ h_batch' = h_batch \o
          [i \in 1..(Len(result') - Len(result)) |->
              [symbol |-> symbol, entry |-> result'[Len(result) + i]]]
    /\ UNCHANGED <<h_pc, h_op, h_window, symbols_left, symbol, trades, movements,
                   notifications, h_error, h_log>>
    /\ UNCHANGED clientVars

\* lines 402-411: the except clauses of _get_trades_for_symbol
TradesErrorCaught(err) == err \in {"GeminiPermissionError", "RemoteError"}

\* lines 402-412 and 430-472: the pagination of the symbol is over; its
\* entries are mapped
TradesForSymbolFinish ==
    /\ h_pc = "paginating"
    /\ h_op = "trades"
    /\ pg_pc \in {"done", "raised"}
    /\ PgClear
    /\ IF pg_pc = "raised" /\ ~TradesErrorCaught(pg_error)
       THEN /\ h_pc' = "raised"
            /\ h_error' = pg_error
            /\ UNCHANGED <<trades, notifications>>
       ELSE LET gemini_trades == IF pg_pc = "raised" THEN <<>> ELSE checked_result
                noted == IF pg_pc = "raised"
                         THEN Append(notifications, Note("error", pg_error))
                         ELSE notifications
                m == TradeLoop(gemini_trades, 1, trades, noted, symbol, h_window[2])
            IN /\ trades' = m.out
               /\ notifications' = m.notes
               /\ h_error' = m.error
               /\ h_pc' = IF m.error = "none" THEN "symbols" ELSE "raised"
    /\ h_log' = Append(h_log,
                       [symbol |-> symbol,
                        pagination |-> IF pg_pc = "done" THEN "ok" ELSE pg_error])
    /\ UNCHANGED <<h_op, h_window, symbols_left, symbol, movements, h_batch>>
    /\ UNCHANGED clientVars

\* line 474
TradeHistoryReturn ==
    /\ h_pc = "symbols"
    /\ h_op = "trades"
    /\ symbols_left = <<>>
    /\ h_pc' = "done"
    /\ UNCHANGED <<h_op, h_window, symbols_left, symbol, trades, movements,
                   notifications, h_error, h_batch, h_log>>
    /\ UNCHANGED <<pageVars, clientVars>>

\* The operation has returned or raised: its locals are gone, the client
\* is ready for the next call.
HistoryOver ==
    /\ h_pc \in {"done", "raised"}
    /\ h_pc' = "idle"
    /\ h_op' = "none"
    /\ h_window' = <<0, 0>>
    /\ symbols_left' = <<>>
    /\ symbol' = NoSymbol
    /\ trades' = <<>>
    /\ movements' = <<>>
    /\ notifications' = <<>>
    /\ h_error' = "none"
    /\ h_batch' = <<>>
    /\ h_log' = <<>>
    /\ UNCHANGED <<pageVars, clientVars>>

\* lines 481-485: the call, and the pagination begins
MovementsCall(s, t) ==
    /\ HIdle
    /\ h_op' = "movements"
    /\ h_window' = <<s, t>>
    /\ h_pc' = "paginating"
    /\ trades' = <<>>
    /\ movements' = <<>>
    /\ notifications' = <<>>
    /\ h_batch' = <<>>
    /\ h_log' = <<>>
    /\ h_error' = "none"
    /\ symbol' = NoSymbol
    /\ symbols_left' = <<>>
    /\ PgStart("transfers", s, t)
    /\ UNCHANGED clientVars

\* lines 481-535: the pagination is over (an exception of it passes
\* through); the entries are mapped
MovementsFinish ==
    /\ h_pc = "paginating"
    /\ h_op = "movements"
    /\ pg_pc \in {"done", "raised"}
    /\ PgClear
    /\ IF pg_pc = "raised"
       THEN /\ h_pc' = "raised"
            /\ h_error' = pg_error
            /\ UNCHANGED <<movements, notifications>>
       ELSE LET m == MovementLoop(checked_result, 1, <<>>, notifications)
            IN /\ movements' = m.out
               /\ notifications' = m.notes
               /\ h_error' = m.error
               /\ h_pc' = IF m.error = "none" THEN "done" ELSE "raised"
    /\ UNCHANGED <<h_op, h_window, symbols_left, symbol, trades, h_batch, h_log>>
    /\ UNCHANGED clientVars

---------------------------------------------------------------------------
(* Two greenlets on one client: first_connection, symbols, query_balances *)

\* A greenlet runs until it blocks: on the network (a request in flight, a
\* backoff sleep) or on a lock. Every action below is one such run.
Callers == {"g1", "g2"}
NoOwner == "nobody"

\* the most first_connection() invocations, 'symbols' queries and
\* 'balances' queries of one behaviour of the greenlets
MaxCalls == 3
MaxSymbolsQueries == 2
MaxBalancesQueries == 2

\* line 107 without the test
FcReturnsEarlyNever == FALSE

\* line 107: the invocation returns at once
FcReturnsEarly == first_connection_made

\* lines 106-111 (and 138-140 when op = "symbols"): the invocation, up to
\* the 'symbols' request of _public_api_query going out
FcCall(g, op) ==
    /\ pc[g] = "idle"
    /\ op \in {"first_connection", "symbols"}
    /\ fc_calls < MaxCalls
    /\ fc_calls' = fc_calls + 1
    /\ IF FcReturnsEarly
       THEN /\ c_ret' = [c_ret EXCEPT ![g] = IF op = "symbols" THEN _symbols ELSE "None"]
            /\ UNCHANGED <<pc, c_op, fc_overlap>>
            /\ UNCHANGED clientVars
       ELSE /\ symbols_queries < MaxSymbolsQueries
            /\ symbols_queries' = symbols_queries + 1
            /\ pc' = [pc EXCEPT ![g] = "fc_wait"]
            /\ c_op' = [c_op EXCEPT ![g] = op]
            /\ c_ret' = [c_ret EXCEPT ![g] = "none"]
            /\ fc_overlap' = (fc_overlap \/ \E o \in Callers : pc[o] = "fc_wait")
            /\ UNCHANGED <<first_connection_made, _symbols, symbols_failures>>
    /\ UNCHANGED <<lock, balances_queries, now, results_cache, qb_last,
                   qb_entries, qb_notifications>>

\* FcResponse with line 112 also reached when the query raised
FcResponseFlagOnFailure(g, r, syms) ==
    /\ pc[g] = "fc_wait"
    /\ pc' = [pc EXCEPT ![g] = "idle"]
    /\ c_op' = [c_op EXCEPT ![g] = "none"]
    /\ IF PublicApiResult(r) = "ok"
       THEN /\ _symbols' = syms
            /\ first_connection_made' = TRUE
            /\ c_ret' = [c_ret EXCEPT ![g] = IF c_op[g] = "symbols" THEN syms ELSE "None"]
            /\ UNCHANGED symbols_failures
       ELSE /\ symbols_failures' = symbols_failures + 1
            /\ c_ret' = [c_ret EXCEPT ![g] = "RemoteError"]
            /\ first_connection_made' = TRUE
            /\ UNCHANGED _symbols
    /\ UNCHANGED <<symbols_queries, lock, fc_calls, fc_overlap, balances_queries,
                   now, results_cache, qb_last, qb_entries, qb_notifications>>

\* lines 111-112 (and 141): the query is over; r is the response the retry
\* loop ended with, syms the list a 200 carries
FcResponse(g, r, syms) ==
    /\ pc[g] = "fc_wait"
    /\ pc' = [pc EXCEPT ![g] = "idle"]
    /\ c_op' = [c_op EXCEPT ![g] = "none"]
    /\ IF PublicApiResult(r) = "ok"
       THEN /\ _symbols' = syms
            /\ first_connection_made' = TRUE
            /\ c_ret' = [c_ret EXCEPT ![g] = IF c_op[g] = "symbols" THEN syms ELSE "None"]
            /\ UNCHANGED symbols_failures
       ELSE /\ symbols_failures' = symbols_failures + 1
            /\ c_ret' = [c_ret EXCEPT ![g] = "RemoteError"]
            /\ UNCHANGED <<_symbols, first_connection_made>>
    /\ UNCHANGED <<symbols_queries, lock, fc_calls, fc_overlap, balances_queries,
                   now, results_cache, qb_last, qb_entries, qb_notifications>>

\* the largest value of the clock
MaxNow == 1200

\* the steps the clock makes: just under the time to live, and the time to live
Advances == {CACHE_RESPONSE_FOR_SECS - 1, CACHE_RESPONSE_FOR_SECS}

\* time passes, whatever the greenlets are doing
Tick(d) ==
    /\ now + d <= MaxNow
    /\ now' = now + d
    /\ UNCHANGED <<pc, c_op, c_ret, lock, fc_calls, fc_overlap, balances_queries,
                   results_cache, qb_last, qb_entries, qb_notifications>>
    /\ UNCHANGED clientVars

\* what query_balances returns: (None, msg) or (returned_balances, '')
FailedResult == [ok |-> FALSE, balances |-> {}]

NoCache == [set |-> FALSE, timestamp |-> 0, result |-> FailedResult]

NoInvocation == [made |-> FALSE, at |-> 0, cached |-> FALSE, cached_at |-> 0,
                 queried |-> FALSE, returned_cached |-> FALSE]

\* a cache that never answers
CacheFreshNever == FALSE

\* line 281, @cache_response_timewise(): a result stored less than
\* CACHE_RESPONSE_FOR_SECS ago answers the call
CacheFresh ==
    /\ results_cache.set
    /\ now - results_cache.timestamp < CACHE_RESPONSE_FOR_SECS

\* query_balances without the decorator of line 280
QbMayEnterUnprotected == TRUE

\* line 280, @protect_with_lock(): the body runs only with the lock held
QbMayEnter == lock = NoOwner

\* lines 280-284: with the lock taken, the cache answers (and the lock is
\* released), or the body starts and blocks with the 'balances' request in
\* flight
QbEnter(g) ==
    /\ QbMayEnter
    /\ IF CacheFresh
       THEN /\ pc' = [pc EXCEPT ![g] = "idle"]
            /\ c_op' = [c_op EXCEPT ![g] = "none"]
            /\ c_ret' = [c_ret EXCEPT ![g] = results_cache.result]
            /\ qb_last' = [made |-> TRUE, at |-> now, cached |-> results_cache.set,
                           cached_at |-> results_cache.timestamp,
                           queried |-> FALSE, returned_cached |-> TRUE]
            /\ UNCHANGED <<lock, balances_queries>>
       ELSE /\ balances_queries < MaxBalancesQueries
            /\ lock' = g
            /\ balances_queries' = balances_queries + 1
            /\ pc' = [pc EXCEPT ![g] = "qb_wait"]
            /\ c_op' = [c_op EXCEPT ![g] = "query_balances"]
            /\ c_ret' = [c_ret EXCEPT ![g] = "none"]
            /\ qb_last' = [made |-> TRUE, at |-> now, cached |-> results_cache.set,
                           cached_at |-> results_cache.timestamp,
                           queried |-> TRUE, returned_cached |-> FALSE]
    /\ UNCHANGED <<fc_calls, fc_overlap, now, results_cache, qb_entries,
                   qb_notifications>>
    /\ UNCHANGED clientVars

\* line 280: an invocation of query_balances: it takes the lock and goes
\* on, or blocks on the lock
QbCall(g) ==
    /\ pc[g] = "idle"
    /\ IF QbMayEnter
       THEN QbEnter(g)
       ELSE /\ pc' = [pc EXCEPT ![g] = "qb_blocked"]
            /\ c_op' = [c_op EXCEPT ![g] = "query_balances"]
            /\ c_ret' = [c_ret EXCEPT ![g] = "none"]
            /\ UNCHANGED <<lock, fc_calls, fc_overlap, balances_queries,
                           now, results_cache, qb_last, qb_entries,
                           qb_notifications>>
            /\ UNCHANGED clientVars

\* line 280: a blocked invocation gets the lock
QbAcquire(g) ==
    /\ pc[g] = "qb_blocked"
    /\ QbEnter(g)

\* A raw balance entry. amount: what entry['amount'] deserializes to, or
\* BadAmount (DeserializationError), or MissingAmount (no such key);
\* currency: entry['currency'], or MissingCurrency (no such key); price:
\* what Inquirer().find_usd_price does for the asset
BadAmount == -1
MissingAmount == -2
MissingCurrency == <<"?">>
BTC == <<"B", "T", "C">>
ETH == <<"E", "T", "H">>
XYZ == <<"X", "Y", "Z">>
XXX == <<"X", "X", "X">>
Entry(c, a, p) == [currency |-> c, amount |-> a, price |-> p]

BalanceEntries ==
    {Entry(BTC, 1, "ok"), Entry(BTC, 0, "ok"), Entry(ETH, 2, "ok"),
     Entry(XYZ, 0, "ok"), Entry(MissingCurrency, 0, "ok"),
     Entry(XYZ, 1, "ok"), Entry(XXX, 1, "ok"), Entry(MissingCurrency, 1, "ok"),
     Entry(BTC, BadAmount, "ok"), Entry(BTC, MissingAmount, "ok"),
     Entry(ETH, 1, "RemoteError")}

\* the most entries of one 'balances' answer
MaxBalanceEntries == 2

BalanceLists == Pages(BalanceEntries, MaxBalanceEntries)

\* the one answer the greenlets of SpecConn get
ConnBalanceLists == {<<Entry(BTC, 1, "ok")>>}

\* BalanceEntryOutcome without the test of lines 295-296
BalanceEntryOutcomeKeepsZero(entry) ==
    IF entry.amount = MissingAmount THEN [do |-> "note", note |-> Note("error", "KeyError")]
    ELSE IF entry.amount = BadAmount
         THEN [do |-> "note", note |-> Note("error", "DeserializationError")]
    ELSE IF entry.currency = MissingCurrency
         THEN [do |-> "note", note |-> Note("error", "KeyError")]
    ELSE IF Asset(entry.currency) = "UnknownAsset"
         THEN [do |-> "note", note |-> Note("warning", "UnknownAsset")]
    ELSE IF Asset(entry.currency) = "UnsupportedAsset"
         THEN [do |-> "note", note |-> Note("warning", "UnsupportedAsset")]
    ELSE IF entry.price = "RemoteError"
         THEN [do |-> "note", note |-> Note("error", "RemoteError")]
    ELSE [do |-> "store", note |-> Note("none", "none")]

\* lines 292-336 for one entry: "store" it, "skip" it silently, or drop it
\* with a notification
BalanceEntryOutcome(entry) ==
    IF entry.amount = MissingAmount THEN [do |-> "note", note |-> Note("error", "KeyError")]
    ELSE IF entry.amount = BadAmount
         THEN [do |-> "note", note |-> Note("error", "DeserializationError")]
    ELSE IF entry.amount = 0 THEN [do |-> "skip", note |-> Note("none", "none")]
    ELSE IF entry.currency = MissingCurrency
         THEN [do |-> "note", note |-> Note("error", "KeyError")]
    ELSE IF Asset(entry.currency) = "UnknownAsset"
         THEN [do |-> "note", note |-> Note("warning", "UnknownAsset")]
    ELSE IF Asset(entry.currency) = "UnsupportedAsset"
         THEN [do |-> "note", note |-> Note("warning", "UnsupportedAsset")]
    ELSE IF entry.price = "RemoteError"
         THEN [do |-> "note", note |-> Note("error", "RemoteError")]
    ELSE [do |-> "store", note |-> Note("none", "none")]

\* returned_balances[asset] = {...}: the dict keeps one value per asset
Store(acc, entry) ==
    {b \in acc : b.asset # entry.currency}
        \cup {[asset |-> entry.currency, amount |-> entry.amount]}

\* lines 290-338: the loop over the entries, from index i
RECURSIVE BalanceLoop(_, _, _, _)
BalanceLoop(entries, i, acc, notes) ==
    IF i > Len(entries) THEN [balances |-> acc, notes |-> notes]
    ELSE LET o == BalanceEntryOutcome(entries[i])
         IN CASE o.do = "store" ->
                    BalanceLoop(entries, i + 1, Store(acc, entries[i]), notes)
              [] o.do = "skip" -> BalanceLoop(entries, i + 1, acc, notes)
              [] OTHER -> BalanceLoop(entries, i + 1, acc, Append(notes, o.note))

\* lines 283-338: the body of query_balances on the answer it got
BalancesBody(r, entries) ==
    IF PrivateApiResult(r) # "ok"
    THEN [result |-> FailedResult, notes |-> <<>>]
    ELSE LET m == BalanceLoop(entries, 1, {}, <<>>)
         IN [result |-> [ok |-> TRUE, balances |-> m.balances], notes |-> m.notes]

\* lines 284-338: the query is over; the body maps the answer and returns,
\* the result is stored in the cache and the lock is released
QbResponse(g, r, entries) ==
    /\ pc[g] = "qb_wait"
    /\ pc' = [pc EXCEPT ![g] = "idle"]
    /\ c_op' = [c_op EXCEPT ![g] = "none"]
    /\ LET b == BalancesBody(r, entries)
       IN /\ c_ret' = [c_ret EXCEPT ![g] = b.result]
          /\ results_cache' = [set |-> TRUE, timestamp |-> now, result |-> b.result]
          /\ qb_notifications' = b.notes
          /\ qb_entries' = IF PrivateApiResult(r) = "ok" THEN entries ELSE <<>>
    /\ lock' = IF lock = g THEN NoOwner ELSE lock
    /\ UNCHANGED <<fc_calls, fc_overlap, balances_queries, now, qb_last>>
    /\ UNCHANGED clientVars

---------------------------------------------------------------------------
(* The specifications *)

\* the client and every operation as construction leaves them
Init ==
    /\ qc_pc = "idle"
    /\ qc_endpoint = "symbols"
    /\ retries_left = QUERY_RETRY_TIMES
    /\ response = NoResponse
    /\ qc_broke = FALSE
    /\ qc_statuses = <<>>
    /\ qc_requests = 0
    /\ qc_signed = 0
    /\ qc_sleeps = <<>>
    /\ api_result = "none"
    /\ validate_ret = NoValidation

    /\ pg_pc = "idle"
    /\ pg_endpoint = "mytrades"
    /\ start_ts = 0
    /\ end_ts = 0
    /\ limit = LimitTrades
    /\ options_timestamp = 0
    /\ result = <<>>
    /\ checked_result = <<>>
    /\ pg_error = "none"
    /\ cursors = <<>>
    /\ pg_venue_ok = TRUE

    /\ first_connection_made = FALSE
    /\ _symbols = NoSymbols
    /\ symbols_queries = 0
    /\ symbols_failures = 0

    /\ pc = [g \in Callers |-> "idle"]
    /\ c_op = [g \in Callers |-> "none"]
    /\ c_ret = [g \in Callers |-> "none"]
    /\ lock = NoOwner
    /\ fc_calls = 0
    /\ fc_overlap = FALSE
    /\ balances_queries = 0
    /\ now = 0
    /\ results_cache = NoCache
    /\ qb_last = NoInvocation
    /\ qb_entries = <<>>
    /\ qb_notifications = <<>>

    /\ h_pc = "idle"
    /\ h_op = "none"
    /\ h_window = <<0, 0>>
    /\ symbols_left = <<>>
    /\ symbol = NoSymbol
    /\ trades = <<>>
    /\ movements = <<>>
    /\ notifications = <<>>
    /\ h_error = "none"
    /\ h_batch = <<>>
    /\ h_log = <<>>

    /\ sp_symbol = NoSymbol
    /\ sp_pair = NoPair

NextRetry ==
    \/ \E e \in Endpoints : QcCall(e) /\ UNCHANGED <<pageVars, clientVars, histVars, connVars, symbolVars>>
    \/ \E r \in Responses : QcAttempt(r) /\ UNCHANGED <<pageVars, clientVars, histVars, connVars, symbolVars>>
    \/ QcConnectionError /\ UNCHANGED <<pageVars, clientVars, histVars, connVars, symbolVars>>
    \/ QcReturn /\ UNCHANGED <<pageVars, clientVars, histVars, connVars, symbolVars>>
    \/ \E flag \in RolesFlags :
          ValidateApiKey(flag) /\ UNCHANGED <<pageVars, clientVars, histVars, connVars, symbolVars>>

SpecRetry == Init /\ [][NextRetry]_vars

NextPaginate ==
    \/ \E e \in {"mytrades", "transfers"}, s \in Seconds, t \in Seconds :
          PgCall(e, s, t) /\ UNCHANGED <<retryVars, clientVars, histVars, connVars, symbolVars>>
    \/ PaginateFetch /\ UNCHANGED <<retryVars, clientVars, histVars, connVars, symbolVars>>
    \/ PgFinish /\ UNCHANGED <<retryVars, clientVars, histVars, connVars, symbolVars>>

SpecPaginate == Init /\ [][NextPaginate]_vars

NextHistory ==
    \/ \E w \in HistoryWindows, r \in Responses, syms \in SymbolLists :
          TradeHistoryCall(w[1], w[2], r, syms) /\ UNCHANGED <<retryVars, connVars, symbolVars>>
    \/ TradesForSymbolStart /\ UNCHANGED <<retryVars, connVars, symbolVars>>
    \/ HistoryFetch /\ UNCHANGED <<retryVars, connVars, symbolVars>>
    \/ PgFinish /\ UNCHANGED <<retryVars, clientVars, histVars, connVars, symbolVars>>
    \/ TradesForSymbolFinish /\ UNCHANGED <<retryVars, connVars, symbolVars>>
    \/ TradeHistoryReturn /\ UNCHANGED <<retryVars, connVars, symbolVars>>
    \/ \E w \in HistoryWindows : MovementsCall(w[1], w[2]) /\ UNCHANGED <<retryVars, connVars, symbolVars>>
    \/ MovementsFinish /\ UNCHANGED <<retryVars, connVars, symbolVars>>
    \/ HistoryOver /\ UNCHANGED <<retryVars, connVars, symbolVars>>

SpecHistory == Init /\ [][NextHistory]_vars

connOthers == <<retryVars, pageVars, histVars, symbolVars>>

NextConn ==
    \/ \E g \in Callers, op \in {"first_connection", "symbols"} :
          FcCall(g, op) /\ UNCHANGED connOthers
    \/ \E g \in Callers, r \in Responses, syms \in SymbolLists :
          FcResponse(g, r, syms) /\ UNCHANGED connOthers
    \/ \E g \in Callers : QbCall(g) /\ UNCHANGED connOthers
    \/ \E g \in Callers : QbAcquire(g) /\ UNCHANGED connOthers
    \/ \E g \in Callers, r \in Responses, entries \in ConnBalanceLists :
          QbResponse(g, r, entries) /\ UNCHANGED connOthers
    \/ \E d \in Advances : Tick(d) /\ UNCHANGED connOthers

SpecConn == Init /\ [][NextConn]_vars

\* one caller of query_balances, every answer of the venue
NextBalances ==
    \/ QbCall("g1") /\ UNCHANGED connOthers
    \/ \E r \in Responses :
          \E entries \in (IF PrivateApiResult(r) = "ok" THEN BalanceLists ELSE {<<>>}) :
              QbResponse("g1", r, entries) /\ UNCHANGED connOthers
    \/ \E d \in Advances : Tick(d) /\ UNCHANGED connOthers

SpecBalances == Init /\ [][NextBalances]_vars

\* gemini_symbol_to_pair on every symbol of PairSymbols
NextSymbols ==
    \E sym \in PairSymbols :
        PairCall(sym) /\ UNCHANGED <<retryVars, pageVars, clientVars, histVars, connVars>>

SpecSymbols == Init /\ [][NextSymbols]_vars

---------------------------------------------------------------------------
(* C1 *)

AllRateLimited ==
    \A i \in 1..Len(qc_statuses) : qc_statuses[i] = HTTP_TOO_MANY_REQUESTS

\* C1: when every response of a call is 429, the call issues exactly
\* QUERY_RETRY_TIMES requests and then returns (does not raise) the last
\* response, whose status is 429.
C1_RetryBound ==
    /\ (qc_pc = "loop" /\ AllRateLimited) => qc_requests <= QUERY_RETRY_TIMES
    /\ (qc_pc = "returned" /\ AllRateLimited) =>
          /\ qc_requests = QUERY_RETRY_TIMES
          /\ Len(qc_statuses) = QUERY_RETRY_TIMES
          /\ response.status_code = HTTP_TOO_MANY_REQUESTS
    /\ (qc_pc = "loop" /\ AllRateLimited /\ qc_requests = QUERY_RETRY_TIMES) =>
          retries_left = 0 /\ ENABLED QcReturn
    /\ (qc_pc = "raised") => qc_requests > Len(qc_statuses)

C1_Witness ==
    /\ qc_pc = "returned"
    /\ AllRateLimited
    /\ qc_requests = QUERY_RETRY_TIMES
    /\ response.status_code = HTTP_TOO_MANY_REQUESTS

---------------------------------------------------------------------------
(* C2 *)

\* C2: the cursor values sent in the successive fetches of one pagination
\* are strictly increasing, whatever pages the venue returns, so that no
\* cursor is requested twice (and the pagination ends).
C2_CursorStrictlyIncreasing ==
    \A i \in 1..Len(cursors), j \in 1..Len(cursors) :
        i < j => cursors[i] < cursors[j]

---------------------------------------------------------------------------
(* C3 *)

\* C3: for a window with start_ts <= end_ts, every record of the returned
\* list has its timestamp (timestampms / 1000) in [start_ts, end_ts].
C3_WindowFiltering ==
    (pg_pc = "done" /\ start_ts <= end_ts) =>
        \A i \in 1..Len(checked_result) :
            /\ start_ts * 1000 <= checked_result[i].timestampms
            /\ checked_result[i].timestampms <= end_ts * 1000

---------------------------------------------------------------------------
(* C4 *)

IsOldestFirst(s) ==
    \A i \in 1..Len(s), j \in 1..Len(s) :
        i < j => s[i].timestampms <= s[j].timestampms

\* C4: when every page was newest-first and honoured the cursor, the
\* returned list is oldest-first, for one page and for several.
C4_PaginateOrdered ==
    (pg_pc = "done" /\ pg_venue_ok) => IsOldestFirst(checked_result)

---------------------------------------------------------------------------
(* C5 *)

\* the venue answered each symbol with well-formed records, newest first
BatchNewestFirstPerSymbol ==
    /\ \A i \in 1..Len(h_batch) :
          /\ h_batch[i].entry.timestampms # MissingMs
          /\ h_batch[i].entry.timestamp = h_batch[i].entry.timestampms \div 1000
    /\ \A i \in 1..Len(h_batch), j \in 1..Len(h_batch) :
          (i < j /\ h_batch[i].symbol = h_batch[j].symbol) =>
              h_batch[i].entry.timestampms >= h_batch[j].entry.timestampms

\* C5: the list query_online_trade_history returns is in non-decreasing
\* timestamp order over the whole result, several symbols included (stated
\* here for a venue that answers every symbol newest-first).
C5_TradeHistoryOrdered ==
    (h_pc = "done" /\ h_op = "trades" /\ BatchNewestFirstPerSymbol) =>
        \A i \in 1..Len(trades), j \in 1..Len(trades) :
            i < j => trades[i].timestamp <= trades[j].timestamp

---------------------------------------------------------------------------
(* C6 *)

\* a record with a required field missing or undeserializable
Malformed(e) ==
    \/ e.timestampms = MissingMs
    \/ e.timestamp = BadTimestamp /\ h_op = "trades"
    \/ e.fault \in {"KeyError", "DeserializationError"}

\* a well-formed record of the window
ValidInWindow(e) ==
    /\ e.timestampms # MissingMs
    /\ e.fault = "none"
    /\ e.timestamp = e.timestampms \div 1000
    /\ h_window[1] * 1000 <= e.timestampms
    /\ e.timestampms <= h_window[2] * 1000

\* the venue answered every fetch of the operation with a page
NoFetchFailed ==
    /\ h_error \notin {"RemoteError", "GeminiPermissionError"}
    /\ \A i \in 1..Len(notifications) :
          notifications[i].about \notin {"RemoteError", "GeminiPermissionError"}

\* the batch holds exactly one malformed record, the others are valid
\* records of the window (of symbols that parse)
OneMalformedAmongValid ==
    /\ Cardinality({i \in 1..Len(h_batch) : Malformed(h_batch[i].entry)}) = 1
    /\ \A i \in 1..Len(h_batch) :
          \/ Malformed(h_batch[i].entry)
          \/ /\ ValidInWindow(h_batch[i].entry)
             /\ h_op = "trades" =>
                   gemini_symbol_to_pair(h_batch[i].symbol).error = "none"

HistoryOutput == IF h_op = "trades" THEN trades ELSE movements

\* C6: an operation whose batch holds one malformed record among N valid
\* records of the window returns exactly the N valid records; no exception
\* leaves it.
C6_SkipNotAbort ==
    (h_pc \in {"done", "raised"} /\ NoFetchFailed /\ OneMalformedAmongValid) =>
        /\ h_pc = "done"
        /\ Len(HistoryOutput) = Len(h_batch) - 1

---------------------------------------------------------------------------
(* C7 *)

RecordLevelErrors == {"UnknownAsset", "UnsupportedAsset", "UnprocessableTradePair",
                      "DeserializationError", "KeyError"}

\* C7: no record-level error kind ever leaves the trade or the movement
\* operation: the record is dropped and the rest is processed.
C7_RecordErrorsNeverPropagate == h_error \notin RecordLevelErrors

---------------------------------------------------------------------------
(* C8 *)

NoSymbolsQueryInFlight == \A g \in Callers : pc[g] # "fc_wait"

\* C8: two first_connection() invocations in sequence, the first one
\* succeeding, issue exactly one 'symbols' query, and an invocation on an
\* initialized client issues none and leaves _symbols and
\* first_connection_made as they are.
C8_IdempotentBootstrap ==
    /\ []((fc_calls >= 2 /\ ~fc_overlap /\ symbols_failures = 0
           /\ NoSymbolsQueryInFlight) =>
             (symbols_queries = 1 /\ first_connection_made))
    /\ [][(first_connection_made /\ fc_calls' = fc_calls + 1) =>
             (UNCHANGED clientVars /\ pc' = pc)]_vars

C8_Witness ==
    /\ fc_calls = 2
    /\ ~fc_overlap
    /\ symbols_failures = 0
    /\ symbols_queries = 1
    /\ first_connection_made
    /\ \A g \in Callers : pc[g] = "idle"

---------------------------------------------------------------------------
(* C9 *)

\* C9: also when two callers run first_connection() concurrently on an
\* uninitialized client, the 'symbols' query is issued at most once (no
\* query having failed, there is no reason for a second one).
C9_BootstrapIssuedOnce ==
    symbols_failures = 0 => symbols_queries <= 1

---------------------------------------------------------------------------
(* C10 *)

InBalancesBody(g) == pc[g] = "qb_wait"

\* C10: at no time are two invocations of query_balances in their body,
\* and the one that is holds the lock; a caller that finds the lock taken
\* is not in the body.
C10_BalancesMutualExclusion ==
    /\ Cardinality({g \in Callers : InBalancesBody(g)}) <= 1
    /\ \A g \in Callers : InBalancesBody(g) => lock = g

C10_Witness ==
    \E g \in Callers, o \in Callers :
        /\ g # o
        /\ InBalancesBody(g)
        /\ pc[o] = "qb_blocked"

---------------------------------------------------------------------------
(* C11 *)

\* C11: an invocation of query_balances made less than
\* CACHE_RESPONSE_FOR_SECS after a result was stored returns the stored
\* result and issues no 'balances' request; one made with no result stored,
\* or that long or longer after, issues a request.
C11_BalanceCache ==
    qb_last.made =>
        IF qb_last.cached /\ qb_last.at - qb_last.cached_at < CACHE_RESPONSE_FOR_SECS
        THEN ~qb_last.queried /\ qb_last.returned_cached
        ELSE qb_last.queried /\ ~qb_last.returned_cached

C11_Witness ==
    /\ qb_last.made
    /\ qb_last.returned_cached
    /\ qb_last.at - qb_last.cached_at = CACHE_RESPONSE_FOR_SECS - 1
    /\ balances_queries = 1

---------------------------------------------------------------------------
(* C12 *)

ZeroEntries == {i \in 1..Len(qb_entries) : qb_entries[i].amount = 0}

---------------------------------------------------------------------------
(* C13 *)

PermissionDenied(r) ==
    \/ r.status_code = HTTP_FORBIDDEN
    \/ r.status_code = HTTP_BAD_REQUEST /\ r.text = "InvalidSignature"

\* C13: validate_api_key returns (True, '') exactly when the 'roles' query
\* succeeded and the flag is true; a permission-denied answer, and an absent
\* or false flag, give (False, instructions); every other failure gives
\* (False, error text); and it always returns.
C13_ValidateOutcomes ==
    validate_ret.done =>
        /\ validate_ret.ok <=> (api_result = "ok" /\ validate_ret.flag = "true")
        /\ validate_ret.ok => validate_ret.message = ""
        /\ ((qc_pc = "returned" /\ PermissionDenied(response))
               \/ (api_result = "ok" /\ validate_ret.flag \in {"absent", "false"})) =>
              (~validate_ret.ok /\ validate_ret.message = "instructions")
        /\ (api_result = "RemoteError") =>
              (~validate_ret.ok /\ validate_ret.message = "error text")

---------------------------------------------------------------------------
(* C14 *)

\* C14: a query whose QUERY_RETRY_TIMES attempts were all answered 429
\* raises RemoteError, and so does every query that ends with a response
\* whose status is not 200, not 403 and not 400 with InvalidSignature.
C14_ExhaustedRetriesRemoteError ==
    qc_pc = "returned" =>
        /\ (AllRateLimited /\ qc_requests = QUERY_RETRY_TIMES) =>
              api_result = "RemoteError"
        /\ (/\ response.status_code \notin {HTTP_OK, HTTP_FORBIDDEN}
            /\ ~(response.status_code = HTTP_BAD_REQUEST
                   /\ response.text = "InvalidSignature")) =>
              api_result = "RemoteError"

C14_Witness ==
    /\ qc_pc = "returned"
    /\ qc_endpoint \in PrivateEndpoints
    /\ qc_statuses = [i \in 1..QUERY_RETRY_TIMES |-> HTTP_TOO_MANY_REQUESTS]
    /\ response.text = "json"
    /\ api_result = "RemoteError"

---------------------------------------------------------------------------
(* C15 *)

\* C15: a request that fails at connection level ends the call at once with
\* RemoteError, whatever retries are left: the failed attempt is followed by
\* no request and no sleep of that call, and the only sleeps of the call
\* are those that followed its 429 answers.
C15_ConnectionFailureNotRetried ==
    /\ [](qc_pc = "raised" =>
            /\ api_result = "RemoteError"
            /\ qc_requests = Len(qc_statuses) + 1
            /\ Len(qc_sleeps) = Len(qc_statuses))
    /\ [][(qc_requests' = qc_requests + 1 /\ qc_statuses' = qc_statuses) =>
             (qc_pc' = "raised" /\ api_result' = "RemoteError")]_vars
    /\ [][(qc_pc = "raised" /\ qc_pc' # "loop") =>
             (qc_requests' = qc_requests /\ qc_sleeps' = qc_sleeps)]_vars

C15_Witness ==
    /\ qc_pc = "raised"
    /\ retries_left = QUERY_RETRY_TIMES - 2
    /\ qc_requests = 3
    /\ Len(qc_sleeps) = 2

---------------------------------------------------------------------------
(* C16 *)

\* the symbols of the operation whose pagination ended with a permission
\* error or a remote error
FailedSymbols ==
    {h_log[i].symbol : i \in {j \in 1..Len(h_log) :
                                 h_log[j].pagination \in {"GeminiPermissionError",
                                                          "RemoteError"}}}

\* C16: when the pagination of a symbol failed with a permission error or a
\* remote error, that symbol contributes no trade, every such failure is
\* notified as an error, the operation does not raise, and when it returns
\* every symbol of the list has been paginated.
C16_PerSymbolIsolation ==
    (h_op = "trades" /\ FailedSymbols # {}) =>
        /\ \A i \in 1..Len(trades) : trades[i].symbol \notin FailedSymbols
        /\ \A i \in 1..Len(h_log) :
              h_log[i].pagination \in {"GeminiPermissionError", "RemoteError"} =>
                  \E n \in 1..Len(notifications) :
                      notifications[n] = Note("error", h_log[i].pagination)
        /\ h_pc # "raised"
        /\ h_pc = "done" => [i \in 1..Len(h_log) |-> h_log[i].symbol] = _symbols

---------------------------------------------------------------------------
(* C17 *)

MytradesRequested == pg_endpoint = "mytrades" /\ cursors # <<>>

\* C17: a 'mytrades' request is only made on a client whose 'symbols' query
\* has succeeded, and query_online_trade_history called on an uninitialized
\* client makes that query itself.
C17_BootstrapPrecedesTrades ==
    /\ [](MytradesRequested =>
            (first_connection_made /\ symbols_queries > symbols_failures))
    /\ [][(h_op # "trades" /\ h_op' = "trades" /\ ~first_connection_made) =>
             symbols_queries' = symbols_queries + 1]_vars
    /\ [][(h_op # "trades" /\ h_op' = "trades" /\ ~first_connection_made') =>
             (h_pc' = "raised" /\ symbols_left' = <<>>)]_vars

C17_Witness ==
    /\ MytradesRequested
    /\ h_op = "trades"
    /\ symbols_queries = 1
    /\ first_connection_made

---------------------------------------------------------------------------
(* C18 *)

SevenCalled == sp_pair # NoPair /\ Len(sp_symbol) = 7

Is43 == /\ sp_pair.base = Upper(Prefix(sp_symbol, 4))
        /\ sp_pair.quote = Upper(Suffix(sp_symbol, 4))
Is34 == /\ sp_pair.base = Upper(Prefix(sp_symbol, 3))
        /\ sp_pair.quote = Upper(Suffix(sp_symbol, 3))

\* C18: for a symbol of seven characters the result is the 3/4 split when
\* the four-character prefix is no known asset, and is never the 3/4 split
\* when that prefix is a known asset.
C18_SevenCharSplit ==
    SevenCalled =>
        /\ Asset(Upper(Prefix(sp_symbol, 4))) = "UnknownAsset" => Is34
        /\ Asset(Upper(Prefix(sp_symbol, 4))) = "ok" => ~Is34

\* C18 as amended: the result is the 4/3 split when both of its parts are
\* known assets, and the 3/4 split (returned, or raising the UnknownAsset of
\* its own parts) when the four-character prefix or the three-character
\* suffix is no known asset.
C18_SevenCharSplitAmended ==
    SevenCalled =>
        /\ (/\ Asset(Upper(Prefix(sp_symbol, 4))) = "ok"
            /\ Asset(Upper(Suffix(sp_symbol, 4))) = "ok") =>
              (Is43 /\ sp_pair.error = "none")
        /\ (\/ Asset(Upper(Prefix(sp_symbol, 4))) = "UnknownAsset"
            \/ /\ Asset(Upper(Prefix(sp_symbol, 4))) = "ok"
               /\ Asset(Upper(Suffix(sp_symbol, 4))) = "UnknownAsset") =>
              /\ Is34
              /\ sp_pair.error = "none" <=>
                    /\ Asset(Upper(Prefix(sp_symbol, 3))) = "ok"
                    /\ Asset(Upper(Suffix(sp_symbol, 3))) = "ok"

C18_Witness ==
    /\ sp_symbol = <<"b", "t", "c", "d", "a", "s", "h">>
    /\ Is34
    /\ sp_pair.error = "none"

---------------------------------------------------------------------------
(* C19 *)

\* str.lower() on one character and on a string
LowerChar(c) ==
    IF \E i \in 1..Len(UpperLetters) : UpperLetters[i] = c
    THEN LowerLetters[CHOOSE i \in 1..Len(UpperLetters) : UpperLetters[i] = c]
    ELSE c

Lower(str) == [i \in 1..Len(str) |-> LowerChar(str[i])]

\* C19: a symbol of eight characters is split 5/3 when it contains 'storj'
\* in any letter case and 4/4 otherwise; a symbol whose length is not 6, 7
\* or 8 fails with UnprocessableTradePair, which carries the symbol.
C19_EightCharSplit ==
    sp_pair # NoPair =>
        /\ (Len(sp_symbol) = 8 /\ Contains(Lower(sp_symbol), Storj)) =>
              /\ sp_pair.base = Upper(Prefix(sp_symbol, 5))
              /\ sp_pair.quote = Upper(Suffix(sp_symbol, 5))
        /\ (Len(sp_symbol) = 8 /\ ~Contains(Lower(sp_symbol), Storj)) =>
              /\ sp_pair.base = Upper(Prefix(sp_symbol, 4))
              /\ sp_pair.quote = Upper(Suffix(sp_symbol, 4))
        /\ Len(sp_symbol) \notin {6, 7, 8} =>
              /\ sp_pair.error = "UnprocessableTradePair"
              /\ sp_pair.pair = sp_symbol

---------------------------------------------------------------------------
(* C20 *)

\* the pagination is about to fetch a further page
FurtherFetch == pg_pc = "loop" /\ cursors # <<>>

\* the first (newest) record of the page received last, when it was full
NewestOfLastPage == result[Len(result) - limit + 1]

\* C20: a further page is fetched only after a full page (so far every page
\* was full) whose newest record is not after end_ts; after a short page,
\* or a full page whose newest record has a millisecond timestamp greater
\* than end_ts, no request follows.
C20_StopRules ==
    FurtherFetch =>
        /\ Len(result) = limit * Len(cursors)
        /\ NewestOfLastPage.timestampms <= end_ts * 1000

---------------------------------------------------------------------------
(* C21 *)

\* how many times record r occurs in the list s
Occurrences(s, r) == Cardinality({i \in 1..Len(s) : s[i] = r})

\* the records received on the fetched pages that are not after end_ts
InWindowReceived ==
    {result[i] : i \in {j \in 1..Len(result) :
                            result[j].timestampms <= end_ts * 1000}}

\* C21: every record received on a fetched page whose timestamp is not
\* after end_ts is in the returned list, as many times as it was received,
\* for one page and for several.
C21_NoInWindowRecordLost ==
    pg_pc = "done" =>
        \A r \in InWindowReceived :
            Occurrences(checked_result, r) = Occurrences(result, r)

---------------------------------------------------------------------------
(* C22 *)

\* the 'symbols' queries that are over and returned a list
SymbolsSuccesses ==
    symbols_queries - symbols_failures
        - Cardinality({g \in Callers : pc[g] = "fc_wait"})

\* a 'symbols' query ends with RemoteError in this step
SymbolsQueryFails == symbols_failures' = symbols_failures + 1

\* C22: a 'symbols' query of first_connection() that fails with RemoteError
\* leaves first_connection_made and _symbols as they were and gives the
\* RemoteError to its caller; an invocation of first_connection() (or of
\* symbols) on a client whose first_connection_made is false issues the
\* 'symbols' request (again); first_connection_made is true only after a
\* 'symbols' query succeeded, and _symbols is unset until then.
C22_FailedBootstrapUninitialized ==
    /\ [](first_connection_made => SymbolsSuccesses >= 1)
    /\ [](~first_connection_made => _symbols = NoSymbols)
    /\ [][SymbolsQueryFails =>
             /\ UNCHANGED <<first_connection_made, _symbols>>
             /\ \E g \in Callers :
                   /\ pc[g] = "fc_wait"
                   /\ pc'[g] = "idle"
                   /\ c_ret'[g] = "RemoteError"]_vars
    /\ [][(~first_connection_made /\ fc_calls' = fc_calls + 1) =>
             symbols_queries' = symbols_queries + 1]_vars

\* the first invocation failed, and the next one has issued the request again
C22_Witness ==
    /\ symbols_failures = 1
    /\ ~first_connection_made
    /\ _symbols = NoSymbols
    /\ ~fc_overlap
    /\ fc_calls = 2
    /\ symbols_queries = 2
    /\ \E g \in Callers : c_ret[g] = "RemoteError"

=============================================================================
